---- MODULE Spec2Model ----
(***************************************************************************)
(* A model of pycommence: the cached Commence connections (api/db_api.py,  *)
(* wrapper/new.py), the Csr cursor API (api/cmc_csr.py), the CmcHandler    *)
(* (api/csr_handler.py), the CursorAPI (cursor_v2.py) and the filter types *)
(* (pycmc_types.py).  The COM server is the environment: every COM call    *)
(* either succeeds or raises com_error with some HRESULT.                  *)
(*                                                                         *)
(* Each handler is one action.  An action leaves in `call` the call that   *)
(* was made, in `ret` how it ended (a return value or an exception) and in *)
(* `log` the COM calls it made, in order.                                  *)
(***************************************************************************)
EXTENDS Integers, Sequences, FiniteSets, TLC

VARIABLES
    connections,      \* db_api CmcConnection.connections: db name -> object
    apiConnections,   \* wrapper CmcAPI.connections: db name -> connection
    component,        \* the component this session drives
    createdCount,     \* history: <<api, db name>> -> objects put in the cache
    dispatchCount,    \* history: <<api, db name>> -> Dispatch calls so far
    dispatchOkCount,  \* history: <<api, db name>> -> Dispatch calls that returned
    getCursorCount,   \* history: <<db name, cursor name>> -> wrapper GetCursor calls
    returned,         \* history: the successful constructions
    call,             \* the last call made
    ret,              \* how the last call ended
    log,              \* the COM calls of the last call
    rows,             \* the rows of the Commence category, in cursor order
    allowDuplicates,  \* the category's "allow duplicates" setting
    applied,          \* the filters set on the COM cursor: slot -> filter
    filter_array,     \* CursorAPI.filter_array
    blocks,           \* the active temporary_filter blocks, innermost first
    heap,             \* the filters dicts of the caller's FilterArrays: id -> dict
    position,         \* the row pointer of the COM cursor: rows before it
    rewinds,          \* whether the server rewinds the row pointer on set_filter
    pk_label_cached   \* CursorAPI.pk_label has been read

vars == <<connections, apiConnections, component, createdCount, dispatchCount,
          dispatchOkCount, getCursorCount, returned, call, ret, log, rows, allowDuplicates,
          applied, filter_array, blocks, heap, position, rewinds, pk_label_cached>>

connVars == <<connections, apiConnections, createdCount, dispatchCount,
              dispatchOkCount, getCursorCount, returned>>
dbVars == <<rows, allowDuplicates>>
cursorVars == <<applied, filter_array, blocks, heap>>
readVars == <<position, rewinds, pk_label_cached>>

(***************************************************************************)
(* Bounds of the model.                                                    *)
(***************************************************************************)
MaxDispatch == 2
MaxFlags == 1
MaxFilters == 9

(***************************************************************************)
(* Program constants.                                                      *)
(***************************************************************************)
HR_DB_NOT_EXIST == -2147221005
HR_RECORD_EXISTS == -2147483617

\* The HRESULTs the COM server may raise: the two special-cased ones and the
\* generic DISP_E_EXCEPTION.
HResults == {HR_DB_NOT_EXIST, HR_RECORD_EXISTS, -2147352567}

\* The outcome of a COM call: 0 (it returned) or the HRESULT of its com_error.
ComOutcomes == {0} \cup HResults

DbNames == {"Commence.DB", "Tutorial.DB"}

None == "<None>"

(***************************************************************************)
(* Results and exceptions.                                                 *)
(***************************************************************************)
Exc(type, msg, hresult) == [exc |-> type, msg |-> msg, hresult |-> hresult]

ComError(hresult) == Exc("com_error", "com_error(" \o ToString(hresult) \o ")", hresult)

Raise(e) == [kind |-> "raise", exc |-> e.exc, msg |-> e.msg, hresult |-> e.hresult,
             val |-> None]

Return(v) == [kind |-> "return", exc |-> "", msg |-> "", hresult |-> 0, val |-> v]

Com(name, arg, slot, hr) == [com |-> name, arg |-> arg, slot |-> slot, hr |-> hr]

\* The last call met a com_error of the COM server.
ComRaised == \E i \in 1..Len(log) : log[i].hr # 0

ComCalled(name) == \E i \in 1..Len(log) : log[i].com = name

(***************************************************************************)
(* api/db_api.py: CmcConnection and Cmc.                                   *)
(***************************************************************************)
NewObject(id, cls) == [id |-> id, cls |-> cls, initialized |-> FALSE,
                       db_name |-> None, has_cmc |-> FALSE]

\* isinstance(obj, cls): Cmc is a subclass of CmcConnection.
IsInstance(obj, cls) == obj.cls = cls \/ (obj.cls = "Cmc" /\ cls = "CmcConnection")

\* CmcConnection.__new__ had it no cache lookup: a new object at every call.
CmcConnectionNewNoLookup(cls, commence_instance) ==
    (commence_instance :>
        NewObject(<<commence_instance,
                    createdCount[<<"db_api", commence_instance>>] + 1>>, cls))
    @@ connections

\* CmcConnection.__new__: the cache after the call.
CmcConnectionNew(cls, commence_instance) ==
    IF commence_instance \in DOMAIN connections
    THEN connections
    ELSE connections @@
            (commence_instance :>
                NewObject(<<commence_instance,
                            createdCount[<<"db_api", commence_instance>>] + 1>>, cls))

\* The constructor's error had it special-cased the duplicate-record HRESULT.
DbApiConnectErrorWrongCode(commence_instance, hresult) ==
    IF hresult = HR_RECORD_EXISTS
    THEN Exc("CmcError",
             "Db Name \"" \o commence_instance \o "\" does not exist - connection failed", 0)
    ELSE Exc("CmcError",
             "Error connecting to " \o commence_instance \o ". Is Commence Running?\n"
                \o ComError(hresult).msg, 0)

DbApiConnectError(commence_instance, hresult) ==
    IF hresult = HR_DB_NOT_EXIST
    THEN Exc("CmcError",
             "Db Name \"" \o commence_instance \o "\" does not exist - connection failed", 0)
    ELSE Exc("CmcError",
             "Error connecting to " \o commence_instance \o ". Is Commence Running?\n"
                \o ComError(hresult).msg, 0)

\* CmcConnection.__init__ on obj, Dispatch ending as d: the object after it,
\* the COM calls made and the exception raised (if any).
CmcConnectionInit(obj, commence_instance, d) ==
    IF obj.initialized
    THEN [obj |-> obj, log |-> <<>>, raised |-> FALSE, exc |-> Exc("", "", 0)]
    ELSE LET o1 == [obj EXCEPT !.initialized = TRUE, !.db_name = commence_instance]
         IN  IF d = 0
             THEN [obj |-> [o1 EXCEPT !.has_cmc = TRUE],
                   log |-> <<Com("Dispatch", commence_instance, 0, d)>>,
                   raised |-> FALSE, exc |-> Exc("", "", 0)]
             ELSE [obj |-> o1,
                   log |-> <<Com("Dispatch", commence_instance, 0, d)>>,
                   raised |-> TRUE, exc |-> DbApiConnectError(commence_instance, d)]

\* type.__call__ of cls(commence_instance): __new__, then __init__ when the
\* object __new__ returned is an instance of cls.
DbApiConstruct(cls, commence_instance, d) ==
    LET conns == CmcConnectionNew(cls, commence_instance)
        obj == conns[commence_instance]
        created == commence_instance \notin DOMAIN connections
        r == IF IsInstance(obj, cls)
             THEN CmcConnectionInit(obj, commence_instance, d)
             ELSE [obj |-> obj, log |-> <<>>, raised |-> FALSE, exc |-> Exc("", "", 0)]
    IN  [connections |-> [conns EXCEPT ![commence_instance] = r.obj],
         created |-> created, log |-> r.log, raised |-> r.raised, exc |-> r.exc,
         obj |-> r.obj]

\* The Dispatch calls of l that ended in one of `outcomes`, added to count.
CountDispatch(count, api, l, outcomes) ==
    [k \in DOMAIN count |->
        count[k] + Cardinality({i \in 1..Len(l) :
            /\ l[i].com = "Dispatch"
            /\ l[i].hr \in outcomes
            /\ k = <<api, l[i].arg>>})]

\* CmcConnection(name) or Cmc(name).
CmcConnectionCall(cls, commence_instance, d) ==
    LET r == DbApiConstruct(cls, commence_instance, d)
    IN  /\ component = "db_api"
        /\ r.log = <<>> \/ dispatchCount[<<"db_api", commence_instance>>] < MaxDispatch
        /\ connections' = r.connections
        /\ createdCount' = IF r.created
                           THEN [createdCount EXCEPT ![<<"db_api", commence_instance>>] = @ + 1]
                           ELSE createdCount
        /\ dispatchCount' = CountDispatch(dispatchCount, "db_api", r.log, ComOutcomes)
        /\ dispatchOkCount' = CountDispatch(dispatchOkCount, "db_api", r.log, {0})
        /\ returned' = IF r.raised THEN returned
                       ELSE returned \cup {<<"db_api", commence_instance, r.obj.id>>}
        /\ call' = [op |-> "CmcConnection", cls |-> cls, name |-> commence_instance]
        /\ ret' = IF r.raised THEN Raise(r.exc) ELSE Return(r.obj.id)
        /\ log' = r.log
        /\ UNCHANGED <<readVars, component, apiConnections, getCursorCount, dbVars, cursorVars>>

(***************************************************************************)
(* get_cursor (both versions): the arguments.                              *)
(***************************************************************************)
CursorNames == {"Contact", None}

\* The connections cursors are requested on: those to the default database.
CursorDbNames == {"Commence.DB"}

CursorTypes == {"CATEGORY", "VIEW", "PILOT_ADDRESS"}

\* CursorType(mode).value: CATEGORY and VIEW are the modes 0 and 1.
CursorTypeValue(mode) ==
    CASE mode = "CATEGORY" -> 0
      [] mode = "VIEW" -> 1
      [] OTHER -> 2

OptionFlags == {"PILOT", "SHARED"}

FlagLists == UNION {[1..n -> OptionFlags] : n \in 0..MaxFlags}

\* flags: None, one OptionFlag or a list of them.
FlagArgs ==
    {[kind |-> "none", items |-> <<>>]}
    \cup {[kind |-> "single", items |-> <<f>>] : f \in OptionFlags}
    \cup {[kind |-> "list", items |-> s] : s \in FlagLists}

\* `if flags:` None and the empty list are falsy, an enum member is truthy.
FlagsTruthy(flags) == flags.kind = "single" \/ (flags.kind = "list" /\ flags.items # <<>>)

\* The first flag of the list that is neither PILOT nor INTERNET, 0 if none.
FirstInvalidFlag(items) ==
    LET bad == {i \in 1..Len(items) : items[i] \notin {"PILOT", "INTERNET"}}
    IN  IF bad = {} THEN 0 ELSE CHOOSE i \in bad : \A j \in bad : i <= j

NoExc == Exc("", "", 0)

\* The argument checks of get_cursor, in the code's order: the exception
\* they raise, NoExc if none.
GetCursorArgCheck(name, mode, flags) ==
    IF FlagsTruthy(flags) /\ FirstInvalidFlag(flags.items) # 0
    THEN Exc("ValueError", "Invalid flag: " \o flags.items[FirstInvalidFlag(flags.items)], 0)
    ELSE IF CursorTypeValue(mode) \in {0, 1} /\ name = None
    THEN Exc("ValueError",
             "Mode " \o ToString(CursorTypeValue(mode)) \o " (\"" \o mode
                \o "\") requires name param to be set", 0)
    ELSE NoExc

\* Cmc.get_cursor on obj, GetCursor ending as g.
DbApiGetCursor(obj, name, mode, flags, g) ==
    LET chk == GetCursorArgCheck(name, mode, flags)
    IN  IF obj.cls # "Cmc"
        THEN [log |-> <<>>, raised |-> TRUE, val |-> None,
              exc |-> Exc("AttributeError", "get_cursor", 0)]
        ELSE IF chk # NoExc
        THEN [log |-> <<>>, raised |-> TRUE, val |-> None, exc |-> chk]
        ELSE IF ~obj.has_cmc
        THEN [log |-> <<>>, raised |-> TRUE, val |-> None,
              exc |-> Exc("AttributeError", "_cmc", 0)]
        ELSE IF g # 0
        THEN [log |-> <<Com("GetCursor", name, CursorTypeValue(mode), g)>>,
              raised |-> TRUE, val |-> None,
              exc |-> Exc("CmcError",
                          "Error creating cursor for " \o name \o ": " \o ComError(g).msg, 0)]
        ELSE [log |-> <<Com("GetCursor", name, CursorTypeValue(mode), g)>>,
              raised |-> FALSE, val |-> "CsrCmc", exc |-> NoExc]

\* The outcomes GetCursor may have in a call of get_cursor: none to choose
\* when the call ends before it reaches the COM server.
GetCursorOutcomes(reached) == IF reached THEN ComOutcomes ELSE {0}

\* Cmc.get_cursor called on a cached connection object.
CmcGetCursorCall(n, name, mode, flags, g) ==
    /\ component = "db_api"
    /\ n \in DOMAIN connections
    /\ connections[n].cls = "Cmc"
    /\ LET r == DbApiGetCursor(connections[n], name, mode, flags, g)
       IN  /\ call' = [op |-> "Cmc.get_cursor", name |-> name, mode |-> mode,
                       flags |-> flags]
           /\ ret' = IF r.raised THEN Raise(r.exc) ELSE Return(r.val)
           /\ log' = r.log
    /\ UNCHANGED <<readVars, component, connVars, dbVars, cursorVars>>

(***************************************************************************)
(* wrapper/new.py: CmcAPI and CmcConnection.                               *)
(***************************************************************************)
\* A CmcConnection before __init__ has set any attribute.
NewConnection(id) == [id |-> id, db_name |-> None, has_cursors |-> FALSE,
                      cursors |-> <<>>, has_cmc |-> FALSE]

\* CmcConnection.get_cursor on conn, GetCursor ending as g: the cursor
\* created gets identity id.
WrapperGetCursor(conn, name, mode, flags, g, id) ==
    LET chk == GetCursorArgCheck(name, mode, flags)
    IN  IF ~conn.has_cursors
        THEN [conn |-> conn, log |-> <<>>, raised |-> TRUE, val |-> None,
              exc |-> Exc("AttributeError", "cursors", 0)]
        ELSE IF name \in DOMAIN conn.cursors
        THEN [conn |-> conn, log |-> <<>>, raised |-> FALSE,
              val |-> conn.cursors[name], exc |-> NoExc]
        ELSE IF chk # NoExc
        THEN [conn |-> conn, log |-> <<>>, raised |-> TRUE, val |-> None, exc |-> chk]
        ELSE IF ~conn.has_cmc
        THEN [conn |-> conn, log |-> <<>>, raised |-> TRUE, val |-> None,
              exc |-> Exc("AttributeError", "_cmc", 0)]
        ELSE IF g # 0
        THEN [conn |-> conn,
              log |-> <<Com("GetCursor", name, CursorTypeValue(mode), g)>>,
              raised |-> TRUE, val |-> None, exc |-> ComError(g)]
        ELSE [conn |-> [conn EXCEPT !.cursors = @ @@ (name :> id)],
              log |-> <<Com("GetCursor", name, CursorTypeValue(mode), g)>>,
              raised |-> FALSE, val |-> id, exc |-> NoExc]

\* CmcConnection.__init__(db_name, cursor_names), Dispatch ending as d.  The
\* cursors dict is built, by get_cursor, before self.cursors and self._cmc
\* are assigned.
WrapperConnectionInit(id, db_name, cursor_names, d) ==
    LET c0 == [NewConnection(id) EXCEPT !.db_name = db_name]
        first == IF cursor_names = <<>> THEN [raised |-> FALSE, exc |-> NoExc]
                 ELSE WrapperGetCursor(c0, cursor_names[1], "CATEGORY",
                                       [kind |-> "none", items |-> <<>>], 0,
                                       <<cursor_names[1], 1>>)
        c1 == [c0 EXCEPT !.has_cursors = TRUE]
    IN  IF first.raised
        THEN [conn |-> c0, log |-> <<>>, raised |-> TRUE, exc |-> first.exc]
        ELSE IF d = 0
        THEN [conn |-> [c1 EXCEPT !.has_cmc = TRUE],
              log |-> <<Com("Dispatch", db_name, 0, d)>>,
              raised |-> FALSE, exc |-> NoExc]
        ELSE [conn |-> c1, log |-> <<Com("Dispatch", db_name, 0, d)>>,
              raised |-> TRUE,
              exc |-> IF d = HR_DB_NOT_EXIST
                      THEN Exc("CmcError", "Db Name \"" \o db_name
                                  \o "\" does not exist - connection failed", 0)
                      ELSE ComError(d)]

\* CmcAPI.__new__(cmc_name, cursor_names).
CmcAPINew(cmc_name, cursor_names, d) ==
    IF cmc_name \in DOMAIN apiConnections
    THEN [connections |-> apiConnections, created |-> FALSE, log |-> <<>>,
          raised |-> FALSE, exc |-> NoExc, val |-> apiConnections[cmc_name].id]
    ELSE LET r == WrapperConnectionInit(
                      <<cmc_name, createdCount[<<"wrapper", cmc_name>>] + 1>>,
                      cmc_name, cursor_names, d)
         IN  IF r.raised
             THEN [connections |-> apiConnections, created |-> FALSE, log |-> r.log,
                   raised |-> TRUE, exc |-> r.exc, val |-> None]
             ELSE [connections |-> apiConnections @@ (cmc_name :> r.conn),
                   created |-> TRUE, log |-> r.log, raised |-> FALSE, exc |-> NoExc,
                   val |-> r.conn.id]

CursorNameLists == {<<>>, <<"Contact">>}

\* CmcAPI(cmc_name, cursor_names).
CmcAPICall(cmc_name, cursor_names, d) ==
    LET r == CmcAPINew(cmc_name, cursor_names, d)
    IN  /\ component = "wrapper"
        /\ r.log = <<>> \/ dispatchCount[<<"wrapper", cmc_name>>] < MaxDispatch
        /\ apiConnections' = r.connections
        /\ createdCount' = IF r.created
                           THEN [createdCount EXCEPT ![<<"wrapper", cmc_name>>] = @ + 1]
                           ELSE createdCount
        /\ dispatchCount' = CountDispatch(dispatchCount, "wrapper", r.log, ComOutcomes)
        /\ dispatchOkCount' = CountDispatch(dispatchOkCount, "wrapper", r.log, {0})
        /\ returned' = IF r.raised THEN returned
                       ELSE returned \cup {<<"wrapper", cmc_name, r.val>>}
        /\ call' = [op |-> "CmcAPI", name |-> cmc_name, cursor_names |-> cursor_names]
        /\ ret' = IF r.raised THEN Raise(r.exc) ELSE Return(r.val)
        /\ log' = r.log
        /\ UNCHANGED <<readVars, component, connections, getCursorCount, dbVars, cursorVars>>

\* CmcConnection.get_cursor called on a cached wrapper connection.
WrapperGetCursorCall(n, name, mode, flags, g) ==
    /\ component = "wrapper"
    /\ n \in DOMAIN apiConnections
    /\ g = 0 \/ getCursorCount[<<n, name>>] < MaxDispatch
    /\ LET r == WrapperGetCursor(apiConnections[n], name, mode, flags, g,
                                 <<name, getCursorCount[<<n, name>>] + 1>>)
       IN  /\ call' = [op |-> "CmcConnection.get_cursor", db |-> n, name |-> name,
                       mode |-> mode, flags |-> flags,
                       cached |-> name \in DOMAIN apiConnections[n].cursors,
                       cache_changed |-> r.conn.cursors # apiConnections[n].cursors]
           /\ ret' = IF r.raised THEN Raise(r.exc) ELSE Return(r.val)
           /\ log' = r.log
           /\ apiConnections' = [apiConnections EXCEPT ![n] = r.conn]
           /\ getCursorCount' = IF r.log # <<>>
                                THEN [getCursorCount EXCEPT ![<<n, name>>] = @ + 1]
                                ELSE getCursorCount
    /\ UNCHANGED <<readVars, component, connections, createdCount, dispatchCount,
                   dispatchOkCount, returned, dbVars, cursorVars>>

(***************************************************************************)
(* pycmc_types.py: CmcFilter and FilterArray.                              *)
(***************************************************************************)
CmcFilter(cmc_col, f_type, value, condition, not_flag) ==
    [cmc_col |-> cmc_col, f_type |-> f_type, value |-> value,
     condition |-> condition, not_flag |-> not_flag]

Filters == {CmcFilter("Name", "F", "Jeff", "Equal To", ""),
            CmcFilter("City", "F", "", "Contains", "Not")}

\* The filter lists tried: up to MaxFilters filters, two filters alternating.
FilterLists ==
    {[i \in 1..n |-> IF i % 2 = 1 THEN a ELSE b] :
        <<n, a, b>> \in (0..MaxFilters) \X Filters \X Filters}

\* CmcFilter.filter_str2(slot) had it rendered the value segment always.
filter_str2AlwaysValue(fil, slot) ==
    "[ViewFilter(" \o ToString(slot) \o ", " \o fil.f_type \o ", " \o fil.not_flag
        \o ", " \o fil.cmc_col \o ", " \o fil.condition
        \o ", " \o fil.value \o ")]"

\* CmcFilter.filter_str2(slot)
filter_str2(fil, slot) ==
    "[ViewFilter(" \o ToString(slot) \o ", " \o fil.f_type \o ", " \o fil.not_flag
        \o ", " \o fil.cmc_col \o ", " \o fil.condition
        \o (IF fil.value # "" THEN ", " \o fil.value ELSE "") \o ")]"

\* FilterArray.from_filters(*filters): the filters dict, enumerate from 1.
from_filters(filters) == [i \in 1..Len(filters) |-> filters[i]]

\* The filters rendered: every combination of type, value, condition and flag.
RenderedFilters ==
    {CmcFilter("Name", t, v, c, nf) :
        <<t, v, c, nf>> \in {"F", "CTI"} \X {"", "Jeff"}
                               \X {"Equal To", "Contains"} \X {"", "Not"}}

(***************************************************************************)
(* api/cmc_csr.py: get_csr and Csr.  The COM cursor behind a Csr is the    *)
(* environment: of the COM calls a handler makes in order, the one at      *)
(* position `fail` (if any) raises com_error(hr).                          *)
(***************************************************************************)
\* The COM calls made of `steps` when step `fail` raises com_error(hr)
\* (fail = 0: none does).
RunSteps(steps, fail, hr) ==
    [i \in 1..(IF fail \in 1..Len(steps) THEN fail ELSE Len(steps)) |->
        [steps[i] EXCEPT !.hr = IF i = fail THEN hr ELSE 0]]

Failed(steps, fail) == fail \in 1..Len(steps)

\* Csr.filter_by_field(field_name, condition, value, fslot=fslot): the
\* filter string it sets.
filter_by_field_str(field_name, condition, value, fslot) ==
    "[ViewFilter(" \o ToString(fslot) \o ", F,, " \o field_name \o ", " \o condition
        \o (IF value # "" THEN ", \"" \o value \o "\"" ELSE "") \o ")]"

\* Csr.filter_by_name(name, fslot=fslot)
filter_by_name_str(name, fslot) == filter_by_field_str("Name", "Equal To", name, fslot)

\* get_csr(table_name, cmc_name): Cmc(cmc_name), then get_cursor(table_name),
\* every exception logged and swallowed.
get_csr(table_name, cmc_name, d, g) ==
    LET c == DbApiConstruct("Cmc", cmc_name, d)
        k == IF c.raised THEN [log |-> <<>>, raised |-> TRUE]
             ELSE DbApiGetCursor(c.obj, table_name, "CATEGORY",
                                 [kind |-> "none", items |-> <<>>], g)
    IN  [construct |-> c, log |-> c.log \o k.log, failed |-> k.raised,
         ret |-> IF k.raised THEN Return(None) ELSE Return("Csr")]

GetCsrCall(table_name, cmc_name, d, g) ==
    LET r == get_csr(table_name, cmc_name, d, g)
    IN  /\ component = "db_api"
        /\ r.construct.log = <<>> \/ dispatchCount[<<"db_api", cmc_name>>] < MaxDispatch
        /\ connections' = r.construct.connections
        /\ createdCount' = IF r.construct.created
                           THEN [createdCount EXCEPT ![<<"db_api", cmc_name>>] = @ + 1]
                           ELSE createdCount
        /\ dispatchCount' = CountDispatch(dispatchCount, "db_api", r.log, ComOutcomes)
        /\ dispatchOkCount' = CountDispatch(dispatchOkCount, "db_api", r.log, {0})
        /\ returned' = IF r.construct.raised THEN returned
                       ELSE returned \cup {<<"db_api", cmc_name, r.construct.obj.id>>}
        /\ call' = [op |-> "get_csr", name |-> cmc_name, table_name |-> table_name,
                    failed |-> r.failed]
        /\ ret' = r.ret
        /\ log' = r.log
        /\ UNCHANGED <<readVars, component, apiConnections, getCursorCount, dbVars, cursorVars>>

RecordNames == {"Jeff"}

\* Csr.delete_record(record_name): every exception is swallowed.
delete_record(record_name, fail, hr, res) ==
    LET steps == <<Com("set_filter", filter_by_name_str(record_name, 1), 1, 0),
                   Com("get_delete_row_set", "", 0, 0),
                   Com("delete_row", "", 0, 0),
                   Com("commit", "", 0, 0)>>
    IN  [log |-> RunSteps(steps, fail, hr), failed |-> Failed(steps, fail),
         ret |-> IF Failed(steps, fail) THEN Return(None) ELSE Return(res)]

CsrDeleteRecordCall(record_name, fail, hr, res) ==
    LET r == delete_record(record_name, fail, hr, res)
    IN  /\ component = "csr"
        /\ call' = [op |-> "Csr.delete_record", name |-> record_name,
                    failed |-> r.failed]
        /\ ret' = r.ret
        /\ log' = r.log
        /\ UNCHANGED <<readVars, component, connVars, dbVars, cursorVars>>

\* Csr.add_record had it turned every com_error into the CmcError.
add_recordWrapAll(record_name, fail, hr, res) ==
    LET steps == <<Com("get_add_row_set", "", 0, 0),
                   Com("modify_row", record_name, 0, 0),
                   Com("modify_row_dict", "package", 0, 0),
                   Com("commit", "", 0, 0)>>
    IN  [log |-> RunSteps(steps, fail, hr),
         ret |-> IF ~Failed(steps, fail) THEN Return(res)
                 ELSE Raise(Exc("CmcError", "Record already exists", 0))]

\* Csr.add_record(record_name, package)
add_record(record_name, fail, hr, res) ==
    LET steps == <<Com("get_add_row_set", "", 0, 0),
                   Com("modify_row", record_name, 0, 0),
                   Com("modify_row_dict", "package", 0, 0),
                   Com("commit", "", 0, 0)>>
    IN  [log |-> RunSteps(steps, fail, hr),
         ret |-> IF ~Failed(steps, fail) THEN Return(res)
                 ELSE IF hr = HR_RECORD_EXISTS
                 THEN Raise(Exc("CmcError", "Record already exists", 0))
                 ELSE Raise(ComError(hr))]

CsrAddRecordCall(record_name, fail, hr, res) ==
    LET r == add_record(record_name, fail, hr, res)
    IN  /\ component = "csr"
        /\ call' = [op |-> "Csr.add_record", name |-> record_name]
        /\ ret' = r.ret
        /\ log' = r.log
        /\ UNCHANGED <<readVars, component, connVars, dbVars, cursorVars>>

\* The packages of edit_record: the items of the dict in order, <<key, value>>.
EditPackages ==
    {<<>>, <<<<"Notes", "a">>>>, <<<<"Notes", "a">>, <<"City", "Bath">>>>,
     <<<<"City", "Bath">>, <<"Notes", "">>>>}

\* The COM calls of edit_record for the items of package from item i on; slot
\* holds the position of the item.
RECURSIVE EditSteps(_, _)
EditSteps(package, i) ==
    IF i > Len(package) THEN <<>>
    ELSE <<Com("get_column_index", package[i][1], i, 0),
           Com("modify_row", package[i][1], i, 0)>> \o EditSteps(package, i + 1)

\* Csr.edit_record had it committed after each key.
edit_recordCommitEach(name, package, fail, hr) ==
    LET head == <<Com("set_filter", filter_by_name_str(name, 1), 1, 0),
                  Com("get_edit_row_set", "", 0, 0)>>
        steps == head \o
                 [j \in 1..(3 * Len(package)) |->
                     IF j % 3 = 0 THEN Com("commit", "", 0, 0)
                     ELSE EditSteps(package, 1)[j - (j \div 3)]]
        at == IF Failed(steps, fail) THEN steps[fail] ELSE Com("", "", 0, 0)
    IN  [log |-> RunSteps(steps, fail, hr),
         ret |-> IF ~Failed(steps, fail) THEN Return(None)
                 ELSE IF at.com \in {"get_column_index", "modify_row"}
                 THEN Raise(Exc("CmcError", "Could not modify " \o package[at.slot][1]
                                               \o " to " \o package[at.slot][2], 0))
                 ELSE Raise(ComError(hr))]

\* Csr.edit_record(name, package): an exception of get_column_index or
\* modify_row becomes CmcError; commit follows the loop.
edit_record(name, package, fail, hr) ==
    LET steps == <<Com("set_filter", filter_by_name_str(name, 1), 1, 0),
                   Com("get_edit_row_set", "", 0, 0)>>
                 \o EditSteps(package, 1)
                 \o <<Com("commit", "", 0, 0)>>
        at == IF Failed(steps, fail) THEN steps[fail] ELSE Com("", "", 0, 0)
    IN  [log |-> RunSteps(steps, fail, hr),
         ret |-> IF ~Failed(steps, fail) THEN Return(None)
                 ELSE IF at.com \in {"get_column_index", "modify_row"}
                 THEN Raise(Exc("CmcError", "Could not modify " \o package[at.slot][1]
                                               \o " to " \o package[at.slot][2], 0))
                 ELSE Raise(ComError(hr))]

CsrEditRecordCall(name, package, fail, hr) ==
    \E r \in {edit_record(name, package, fail, hr)} :
        /\ component = "csr"
        /\ call' = [op |-> "Csr.edit_record", name |-> name, package |-> package]
        /\ ret' = r.ret
        /\ log' = r.log
        /\ UNCHANGED <<readVars, component, connVars, dbVars, cursorVars>>

\* What the one set_filter call of a filter method does: <<fail, hr>>.
SetFilterOutcomes == {<<0, 0>>} \cup ({1} \X HResults)

\* Csr.filter_by_field(field_name, condition, value, fslot=fslot)
CsrFilterByFieldCall(field_name, condition, value, fslot, fail, hr) ==
    \E steps \in {<<Com("set_filter",
                         filter_by_field_str(field_name, condition, value, fslot),
                         fslot, 0)>>} :
        /\ component = "csr"
        /\ call' = [op |-> "Csr.filter_by_field", field_name |-> field_name,
                    condition |-> condition, value |-> value, fslot |-> fslot]
        /\ ret' = IF Failed(steps, fail) THEN Raise(ComError(hr)) ELSE Return(None)
        /\ log' = RunSteps(steps, fail, hr)
        /\ UNCHANGED <<readVars, component, connVars, dbVars, cursorVars>>

\* Csr.filter_by_name(name, fslot=fslot)
CsrFilterByNameCall(name, fslot, fail, hr) ==
    \E steps \in {<<Com("set_filter", filter_by_name_str(name, fslot), fslot, 0)>>} :
        /\ component = "csr"
        /\ call' = [op |-> "Csr.filter_by_name", name |-> name, fslot |-> fslot]
        /\ ret' = IF Failed(steps, fail) THEN Raise(ComError(hr)) ELSE Return(None)
        /\ log' = RunSteps(steps, fail, hr)
        /\ UNCHANGED <<readVars, component, connVars, dbVars, cursorVars>>

\* CmcFilter.filter_str2(slot) on a filter; str(filter) is filter_str2(0).
CmcFilterStr2Call(fil, slot) ==
    /\ component = "csr"
    /\ call' = [op |-> "CmcFilter.filter_str2", fil |-> fil, slot |-> slot]
    /\ ret' = Return(filter_str2(fil, slot))
    /\ log' = <<>>
    /\ UNCHANGED <<readVars, component, connVars, dbVars, cursorVars>>

\* Csr.filter(cmc_filter, slot): the set_filter call it makes.
CsrFilter(fil, slot) == Com("set_filter", filter_str2(fil, slot), slot, 0)

\* Csr.set_filters(filters): the set_filter calls, enumerate from 1.
set_filters(filters) == [i \in 1..Len(filters) |-> CsrFilter(filters[i], i)]

CsrSetFiltersCall(filters) ==
    /\ component = "csr"
    /\ call' = [op |-> "Csr.set_filters", filters |-> filters]
    /\ ret' = Return(None)
    /\ log' = set_filters(filters)
    /\ UNCHANGED <<readVars, component, connVars, dbVars, cursorVars>>

\* The slots of a filters dict in insertion order (from_filters inserts in
\* ascending order).
RECURSIVE SlotsOf(_)
SlotsOf(slots) ==
    IF slots = {} THEN <<>>
    ELSE LET m == CHOOSE x \in slots : \A y \in slots : x <= y
         IN  <<m>> \o SlotsOf(slots \ {m})

\* Csr.filter_by_array(fil_array): one set_filter call per item of the dict.
filter_by_array(filters) ==
    LET order == SlotsOf(DOMAIN filters)
    IN  [i \in 1..Len(order) |-> CsrFilter(filters[order[i]], order[i])]

CsrFilterByArrayCall(filters) ==
    /\ component = "csr"
    /\ call' = [op |-> "Csr.filter_by_array", filters |-> from_filters(filters)]
    /\ ret' = Return(None)
    /\ log' = filter_by_array(from_filters(filters))
    /\ UNCHANGED <<readVars, component, connVars, dbVars, cursorVars>>

(***************************************************************************)
(* Specification of the API layer.                                         *)
(***************************************************************************)
InitConn ==
    /\ connections = <<>>
    /\ apiConnections = <<>>
    /\ createdCount = [k \in {"db_api", "wrapper"} \X DbNames |-> 0]
    /\ dispatchCount = [k \in {"db_api", "wrapper"} \X DbNames |-> 0]
    /\ dispatchOkCount = [k \in {"db_api", "wrapper"} \X DbNames |-> 0]
    /\ getCursorCount = [k \in CursorDbNames \X CursorNames |-> 0]
    /\ returned = {}

InitCall ==
    /\ call = [op |-> "none"]
    /\ ret = Return(None)
    /\ log = <<>>

InitDbIdle ==
    /\ rows = <<>>
    /\ allowDuplicates = FALSE

InitCursorIdle ==
    /\ applied = <<>>
    /\ filter_array = None
    /\ blocks = <<>>
    /\ heap = <<>>

\* The row pointer is followed in the specification of the reads, the one
\* place where row sets are taken from the current position.
InitRowPointerIdle ==
    /\ position = 0
    /\ rewinds = FALSE
    /\ pk_label_cached = FALSE

\* The components of the API layer share no state (each has its own cache):
\* a session drives one of them.
Components == {"db_api", "wrapper", "csr"}

Init ==
    /\ component \in Components
    /\ InitConn /\ InitCall /\ InitDbIdle /\ InitCursorIdle /\ InitRowPointerIdle

Next ==
    \/ \E cls \in {"CmcConnection", "Cmc"}, n \in DbNames, d \in ComOutcomes :
          CmcConnectionCall(cls, n, d)
    \/ \E n \in DOMAIN connections \cap CursorDbNames, name \in CursorNames, mode \in CursorTypes,
          flags \in FlagArgs :
          \E g \in GetCursorOutcomes(
                    DbApiGetCursor(connections[n], name, mode, flags, 0).log # <<>>) :
             CmcGetCursorCall(n, name, mode, flags, g)
    \/ \E n \in DbNames, cn \in CursorNameLists, d \in ComOutcomes :
          CmcAPICall(n, cn, d)
    \/ \E n \in DOMAIN apiConnections \cap CursorDbNames, name \in CursorNames, mode \in CursorTypes,
          flags \in FlagArgs :
          \E g \in GetCursorOutcomes(
                    WrapperGetCursor(apiConnections[n], name, mode, flags, 0, None).log # <<>>) :
             WrapperGetCursorCall(n, name, mode, flags, g)
    \/ \E t \in CursorNames, n \in DbNames, d \in ComOutcomes, g \in ComOutcomes :
          GetCsrCall(t, n, d, g)
    \/ \E n \in RecordNames, fail \in 0..4, hr \in HResults, res \in BOOLEAN :
          CsrDeleteRecordCall(n, fail, hr, res)
    \/ \E n \in RecordNames, fail \in 0..4, hr \in HResults, res \in BOOLEAN :
          CsrAddRecordCall(n, fail, hr, res)
    \/ \E n \in RecordNames, package \in EditPackages, hr \in HResults :
          \E fail \in 0..(2 * Len(package) + 3) :
             CsrEditRecordCall(n, package, fail, hr)
    \/ \E f \in {"Name", "City"}, c \in {"Equal To", "Contains"},
             v \in {"", "Jeff"}, fslot \in {1, MaxFilters}, o \in SetFilterOutcomes :
          CsrFilterByFieldCall(f, c, v, fslot, o[1], o[2])
    \/ \E n \in {"", "Jeff"}, fslot \in {1, MaxFilters}, o \in SetFilterOutcomes :
          CsrFilterByNameCall(n, fslot, o[1], o[2])
    \/ \E fil \in RenderedFilters, slot \in {0, 1, MaxFilters} :
          CmcFilterStr2Call(fil, slot)
    \/ \E fs \in FilterLists : CsrSetFiltersCall(fs)
    \/ \E fs \in FilterLists : CsrFilterByArrayCall(fs)

Spec == Init /\ [][Next]_vars

(***************************************************************************)
(* api/csr_handler.py: CmcHandler over one category.  `rows` is the        *)
(* category in cursor order, a record per row.  The cursor class the       *)
(* handler drives (csr_api_handled.Csr) and its row sets are the           *)
(* environment: a temporary pk/field filter selects the rows whose column  *)
(* equals the value, a row set works on the selected rows in order, commit *)
(* returns True or raises.  Of the calls the handler makes in order, the   *)
(* one at position `fail` (if any) raises.                                 *)
(***************************************************************************)
MaxRows == 2
MaxRtn == 2

HandlerNames == {"Jeff", "Bob"}
HandlerNotes == {"", "a"}
HandlerRecords == [Name : HandlerNames, Notes : HandlerNotes]

\* package: a dict over the columns; None stands for a key that is absent.
Packages == {[Name |-> None, Notes |-> None], [Name |-> None, Notes |-> "a"],
             [Name |-> "Jeff", Notes |-> "a"], [Name |-> "Bob", Notes |-> "a"]}

ExistingKinds == {"raise", "update", "replace"}
EmptyKinds == {"raise", "ignore"}

\* The categories of at most n rows.
RowLists(n) == UNION {[1..k -> HandlerRecords] : k \in 0..n}

UniqueNames(rs) == \A i, j \in 1..Len(rs) : rs[i].Name = rs[j].Name => i = j

\* The rows of rs whose column `field` equals `value`, in cursor order.
Selected(rs, field, value) == SelectSeq(rs, LAMBDA r : r[field] = value)

\* The position in rs of the first row named pk_val.
FirstNamed(rs, pk_val) ==
    CHOOSE i \in 1..Len(rs) :
        rs[i].Name = pk_val /\ \A j \in 1..(i - 1) : rs[j].Name # pk_val

RemoveAt(rs, i) == [j \in 1..(Len(rs) - 1) |-> IF j < i THEN rs[j] ELSE rs[j + 1]]

\* row_set.modify_row_dict(0, package) on the row rec.
ModifyRowDict(rec, package) ==
    [f \in DOMAIN rec |-> IF package[f] # None THEN package[f] ELSE rec[f]]

\* The server refuses the commit of a row named `name` (other than row
\* `except` itself) when the category does not allow duplicate names.
CommitRefused(rs, name, except) ==
    /\ ~allowDuplicates
    /\ \E i \in 1..Len(rs) : i # except /\ rs[i].Name = name

\* The com_error of a call that failed for a reason of the server's.
ServerFailure == CHOOSE h \in HResults : h \notin {HR_DB_NOT_EXIST, HR_RECORD_EXISTS}

\* One row set from get_*_rowset to commit: `steps` are its calls, `after`
\* the category once committed.
RowSetSession(steps, rs, after, refused, fail) ==
    LET f == IF fail \in 1..Len(steps) THEN fail
             ELSE IF refused THEN Len(steps) ELSE 0
        h == IF fail \in 1..Len(steps) THEN ServerFailure ELSE HR_RECORD_EXISTS
    IN  [log |-> RunSteps(steps, f, h),
         rows |-> IF f = 0 THEN after ELSE rs,
         ret |-> IF f = 0 THEN Return(TRUE) ELSE Raise(ComError(h))]

\* A result with the calls `prefix` made before it.
After(prefix, r) == [log |-> prefix \o r.log, rows |-> r.rows, ret |-> r.ret]

\* with self.csr.temporary_filter_pk(pk_val, empty=empty): entering the block.
TemporaryFilterPk(rs, pk_val, empty, fail) ==
    LET enter == <<Com("temporary_filter_pk", pk_val, 0, 0)>>
    IN  IF fail = 1
        THEN [log |-> RunSteps(enter, 1, ServerFailure), rows |-> rs,
              ret |-> Raise(ComError(ServerFailure))]
        ELSE IF Selected(rs, "Name", pk_val) = <<>> /\ empty = "raise"
        THEN [log |-> enter, rows |-> rs,
              ret |-> Raise(Exc("CmcError", "No record found for Name " \o pk_val, 0))]
        ELSE [log |-> enter, rows |-> rs, ret |-> Return(None)]

\* self.csr.row_count, the second call of delete_record and add_record.
RowCount(rs, fail) ==
    LET step == <<Com("row_count", "", 0, 0)>>
    IN  IF fail = 2
        THEN [log |-> RunSteps(step, 1, ServerFailure), rows |-> rs,
              ret |-> Raise(ComError(ServerFailure))]
        ELSE [log |-> step, rows |-> rs, ret |-> Return(None)]

\* CmcHandler.delete_record(pk_val, empty) on the category rs.
HandlerDeleteRecord(rs, pk_val, empty, fail) ==
    LET enter == TemporaryFilterPk(rs, pk_val, empty, fail)
        count == RowCount(rs, fail)
        steps == <<Com("get_delete_rowset", "", 0, 0),
                   Com("delete_row", "0", 0, 0),
                   Com("commit", "", 0, 0)>>
    IN  IF enter.ret.kind = "raise" THEN enter
        ELSE IF count.ret.kind = "raise" THEN After(enter.log, count)
        ELSE IF Selected(rs, "Name", pk_val) = <<>> /\ empty = "ignore"
        THEN After(enter.log, count)
        ELSE After(enter.log \o count.log,
                   RowSetSession(steps, rs, RemoveAt(rs, FirstNamed(rs, pk_val)),
                                 FALSE, fail - 2))

\* CmcHandler.add_record had its 'replace' branch not deleted the record.
HandlerAddRecordNoDelete(rs, pk_val, package, existing, fail) ==
    LET enter == TemporaryFilterPk(rs, pk_val, "ignore", fail)
        count == RowCount(rs, fail)
        head == enter.log \o count.log
        named == ModifyRowDict([Name |-> pk_val, Notes |-> ""], package)
        addset == <<Com("get_named_addset", pk_val, 0, 0),
                    Com("modify_row_dict", "package", 0, 0),
                    Com("commit", "", 0, 0)>>
        editset == <<Com("get_edit_rowset", "", 0, 0),
                     Com("modify_row_dict", "package", 0, 0),
                     Com("commit", "", 0, 0)>>
    IN  IF enter.ret.kind = "raise" THEN enter
        ELSE IF count.ret.kind = "raise" THEN After(enter.log, count)
        ELSE IF Selected(rs, "Name", pk_val) = <<>> \/ existing = "replace"
        THEN After(head, RowSetSession(addset, rs, Append(rs, named),
                                       CommitRefused(rs, named.Name, 0), fail - 2))
        ELSE IF existing = "raise"
        THEN [log |-> head, rows |-> rs,
              ret |-> Raise(Exc("CmcError", "Record already exists", 0))]
        ELSE LET i == FirstNamed(rs, pk_val)
                 edited == ModifyRowDict(rs[i], package)
             IN  After(head, RowSetSession(editset, rs, [rs EXCEPT ![i] = edited],
                                           CommitRefused(rs, edited.Name, i), fail - 2))

\* CmcHandler.add_record(pk_val, package, existing) on the category rs.
HandlerAddRecord(rs, pk_val, package, existing, fail) ==
    LET enter == TemporaryFilterPk(rs, pk_val, "ignore", fail)
        count == RowCount(rs, fail)
        head == enter.log \o count.log
        named == ModifyRowDict([Name |-> pk_val, Notes |-> ""], package)
        addset == <<Com("get_named_addset", pk_val, 0, 0),
                    Com("modify_row_dict", "package", 0, 0),
                    Com("commit", "", 0, 0)>>
        editset == <<Com("get_edit_rowset", "", 0, 0),
                     Com("modify_row_dict", "package", 0, 0),
                     Com("commit", "", 0, 0)>>
    IN  IF enter.ret.kind = "raise" THEN enter
        ELSE IF count.ret.kind = "raise" THEN After(enter.log, count)
        ELSE IF Selected(rs, "Name", pk_val) = <<>>
        THEN After(head, RowSetSession(addset, rs, Append(rs, named),
                                       CommitRefused(rs, named.Name, 0), fail - 2))
        ELSE IF existing = "raise"
        THEN [log |-> head, rows |-> rs,
              ret |-> Raise(Exc("CmcError", "Record already exists", 0))]
        ELSE IF existing = "update"
        THEN LET i == FirstNamed(rs, pk_val)
                 edited == ModifyRowDict(rs[i], package)
             IN  After(head, RowSetSession(editset, rs, [rs EXCEPT ![i] = edited],
                                           CommitRefused(rs, edited.Name, i), fail - 2))
        ELSE LET del == HandlerDeleteRecord(rs, pk_val, "raise",
                                            IF fail > 2 THEN fail - 2 ELSE 0)
                 left == fail - 2 - Len(del.log)
             IN  IF del.ret.kind = "raise" THEN After(head, del)
                 ELSE After(head \o del.log,
                            RowSetSession(addset, del.rows, Append(del.rows, named),
                                          CommitRefused(del.rows, named.Name, 0),
                                          left))

\* CmcHandler.edit_record(pk_val, package) on the category rs.
HandlerEditRecord(rs, pk_val, package, fail) ==
    LET enter == TemporaryFilterPk(rs, pk_val, "raise", fail)
        editset == <<Com("get_edit_rowset", "", 0, 0),
                     Com("modify_row_dict", "package", 0, 0),
                     Com("commit", "", 0, 0)>>
    IN  IF enter.ret.kind = "raise" THEN enter
        ELSE LET i == FirstNamed(rs, pk_val)
                 edited == ModifyRowDict(rs[i], package)
             IN  After(enter.log,
                       RowSetSession(editset, rs, [rs EXCEPT ![i] = edited],
                                     CommitRefused(rs, edited.Name, i), fail - 1))

\* field_name and value of a query.
FieldQueries == {<<"Name", "Jeff">>, <<"Notes", "a">>}

\* max_rtn: None, or a number.
MaxRtnArgs == {[given |-> FALSE, n |-> 0]} \cup [given : {TRUE}, n : 0..MaxRtn]

\* `if max_rtn`: None and 0 are false.
MaxRtnTruthy(max_rtn) == max_rtn.given /\ max_rtn.n # 0

\* CmcHandler.records_by_field(field_name, value, max_rtn, empty)
HandlerRecordsByField(rs, field_name, value, max_rtn, empty, fail) ==
    LET steps == <<Com("temporary_filter_fields", field_name \o " Equal To " \o value, 0, 0),
                   Com("get_query_rowset", "", 0, 0),
                   Com("get_row_dicts", "", 0, 0)>>
        records == Selected(rs, field_name, value)
    IN  IF Failed(steps, fail)
        THEN [log |-> RunSteps(steps, fail, ServerFailure), rows |-> rs,
              ret |-> Raise(ComError(ServerFailure))]
        ELSE [log |-> steps, rows |-> rs,
              ret |-> IF records = <<>> /\ empty = "raise"
                      THEN Raise(Exc("CmcError", "No record found for " \o field_name
                                                    \o " " \o value, 0))
                      ELSE IF MaxRtnTruthy(max_rtn) /\ Len(records) > max_rtn.n
                      THEN Raise(Exc("CmcError", "Expected max " \o ToString(max_rtn.n)
                                        \o " records, got " \o ToString(Len(records)), 0))
                      ELSE Return(records)]

HandlerAddRecordCall(pk_val, package, existing, fail) ==
    \E r \in {HandlerAddRecord(rows, pk_val, package, existing, fail)} :
        /\ component = "handler"
        /\ Len(r.rows) <= MaxRows
        /\ rows' = r.rows
        /\ call' = [op |-> "CmcHandler.add_record", pk_val |-> pk_val,
                    package |-> package, existing |-> existing, before |-> rows]
        /\ ret' = r.ret
        /\ log' = r.log
        /\ UNCHANGED <<readVars, component, connVars, allowDuplicates, cursorVars>>

HandlerDeleteRecordCall(pk_val, empty, fail) ==
    \E r \in {HandlerDeleteRecord(rows, pk_val, empty, fail)} :
        /\ component = "handler"
        /\ rows' = r.rows
        /\ call' = [op |-> "CmcHandler.delete_record", pk_val |-> pk_val,
                    empty |-> empty, before |-> rows]
        /\ ret' = r.ret
        /\ log' = r.log
        /\ UNCHANGED <<readVars, component, connVars, allowDuplicates, cursorVars>>

HandlerEditRecordCall(pk_val, package, fail) ==
    \E r \in {HandlerEditRecord(rows, pk_val, package, fail)} :
        /\ component = "handler"
        /\ rows' = r.rows
        /\ call' = [op |-> "CmcHandler.edit_record", pk_val |-> pk_val,
                    package |-> package, before |-> rows]
        /\ ret' = r.ret
        /\ log' = r.log
        /\ UNCHANGED <<readVars, component, connVars, allowDuplicates, cursorVars>>

HandlerRecordsByFieldCall(field_name, value, max_rtn, empty, fail) ==
    \E r \in {HandlerRecordsByField(rows, field_name, value, max_rtn, empty, fail)} :
        /\ component = "handler"
        /\ rows' = r.rows
        /\ call' = [op |-> "CmcHandler.records_by_field", field_name |-> field_name,
                    value |-> value, max_rtn |-> max_rtn, empty |-> empty,
                    before |-> rows]
        /\ ret' = r.ret
        /\ log' = r.log
        /\ UNCHANGED <<readVars, component, connVars, allowDuplicates, cursorVars>>

(***************************************************************************)
(* Specification of the handler: a category of at most MaxRows rows, with  *)
(* unique names when the category refuses duplicates.                      *)
(***************************************************************************)
InitHandler ==
    /\ component = "handler"
    /\ InitConn /\ InitCall /\ InitCursorIdle /\ InitRowPointerIdle
    /\ allowDuplicates \in BOOLEAN
    /\ rows \in {rs \in RowLists(MaxRows) : allowDuplicates \/ UniqueNames(rs)}

NextHandler ==
    \/ \E pk_val \in RecordNames, package \in Packages, existing \in ExistingKinds :
          \E fail \in 0..Len(HandlerAddRecord(rows, pk_val, package, existing, 0).log) :
             HandlerAddRecordCall(pk_val, package, existing, fail)
    \/ \E pk_val \in HandlerNames, empty \in EmptyKinds :
          \E fail \in 0..Len(HandlerDeleteRecord(rows, pk_val, empty, 0).log) :
             HandlerDeleteRecordCall(pk_val, empty, fail)
    \/ \E pk_val \in HandlerNames, package \in Packages :
          \E fail \in 0..Len(HandlerEditRecord(rows, pk_val, package, 0).log) :
             HandlerEditRecordCall(pk_val, package, fail)
    \/ \E q \in FieldQueries, max_rtn \in MaxRtnArgs, empty \in EmptyKinds, fail \in 0..3 :
          HandlerRecordsByFieldCall(q[1], q[2], max_rtn, empty, fail)

SpecHandler == InitHandler /\ [][NextHandler]_vars

(***************************************************************************)
(* Program constant: the COM cursor has the filter slots 1..MaxSlot.       *)
(***************************************************************************)
MaxSlot == 8

(***************************************************************************)
(* cursor_v2.py: CursorAPI.  The FilterArray and FieldFilter it uses       *)
(* (filters.py) are taken to be as pycmc_types.py has them: a pydantic     *)
(* model holding the dict `filters`, slot -> filter, always true in a      *)
(* condition, whose copy() is shallow: the copy is a new model sharing the *)
(* dict of the original.  A FilterArray is therefore denoted by the id of  *)
(* its dict, and `heap` holds the dicts.  The COM cursor is the            *)
(* environment: a filter set on a slot stays until that slot is set again  *)
(* or cleared, and the cursor shows the rows that pass every slot.         *)
(***************************************************************************)
MaxDepth == 2

Slots == 1..MaxSlot

NoFilter == CmcFilter("", "", "", "", "")

\* FieldFilter(column=column, condition=ConditionType.EQUAL, value=value)
FieldFilter(column, value) == CmcFilter(column, "F", value, "Equal To", "")

\* The dict of FilterArray.from_filters(*filters), over all the slots.
FiltersDict(filters) ==
    [s \in Slots |-> IF s \in DOMAIN from_filters(filters)
                     THEN from_filters(filters)[s] ELSE NoFilter]

\* The FilterArrays the caller holds.
ArrayIds == {"A", "B"}

InitHeap ==
    [id \in ArrayIds |->
        IF id = "A" THEN FiltersDict(<<FieldFilter("Name", "Jeff")>>)
        ELSE FiltersDict(<<FieldFilter("Name", "Bob"), FieldFilter("Notes", "a")>>)]

\* The value of the FilterArray (or None) that ref denotes.
FilterValue(h, ref) ==
    IF ref = None THEN [none |-> TRUE, filters |-> [s \in Slots |-> NoFilter]]
    ELSE [none |-> FALSE, filters |-> h[ref]]

\* The rows the COM cursor shows under the filters ap.
Visible(rs, ap) ==
    SelectSeq(rs, LAMBDA r :
        \A s \in Slots : ap[s] # NoFilter => r[ap[s].cmc_col] = ap[s].value)

\* CursorAPI.filter_by_array() with self.filter_array = ref whose dict is fs
\* (ref = None: no FilterArray): one set_filter per filter, then row_count
\* for the log line.
CursorFilterByArray(ap, ref, fs, fail) ==
    IF ref = None
    THEN [log |-> <<>>, applied |-> ap,
          ret |-> Raise(Exc("AttributeError",
                            "'NoneType' object has no attribute 'filter_strs'", 0))]
    ELSE LET order == SlotsOf({s \in Slots : fs[s] # NoFilter})
             steps == [i \in 1..Len(order) |->
                          Com("set_filter", filter_str2(fs[order[i]], order[i]),
                              order[i], 0)]
                      \o <<Com("row_count", "", 0, 0)>>
             done == IF Failed(steps, fail) THEN fail - 1 ELSE Len(order)
         IN  [log |-> RunSteps(steps, fail, ServerFailure),
              applied |-> [s \in Slots |->
                              IF \E i \in 1..Len(order) : i <= done /\ order[i] = s
                              THEN fs[s] ELSE ap[s]],
              ret |-> IF Failed(steps, fail) THEN Raise(ComError(ServerFailure))
                      ELSE Return(None)]

\* temporary_filter, `finally: self.filter_array = og_filter`: the attribute
\* when the block is left (raised: by an exception).
TemporaryFilterFinally(og_filter, current, raised) == og_filter

\* temporary_filter(fil_array) up to its yield.
TemporaryFilterEnter(fil_array, fail) ==
    \E r \in {CursorFilterByArray(applied, fil_array,
                                  IF fil_array = None THEN <<>> ELSE heap[fil_array],
                                  fail)} :
        LET og_filter == IF filter_array # None THEN filter_array ELSE None
            entry == FilterValue(heap, filter_array)
        IN  /\ component = "cursor"
            /\ Len(blocks) < MaxDepth
            /\ applied' = r.applied
            /\ IF r.ret.kind = "raise"
               THEN /\ filter_array' = TemporaryFilterFinally(og_filter, fil_array, TRUE)
                    /\ blocks' = blocks
               ELSE /\ filter_array' = fil_array
                    /\ blocks' = <<[og_filter |-> og_filter, entry |-> entry]>> \o blocks
            /\ call' = [op |-> "temporary_filter", fil_array |-> fil_array,
                        entry |-> entry]
            /\ ret' = r.ret
            /\ log' = r.log
            /\ UNCHANGED <<readVars, component, connVars, dbVars, heap>>

\* The innermost temporary_filter block is left, normally or by an exception
\* of its body.
TemporaryFilterExit(raised) ==
    /\ component = "cursor"
    /\ blocks # <<>>
    /\ filter_array' = TemporaryFilterFinally(Head(blocks).og_filter, filter_array, raised)
    /\ blocks' = Tail(blocks)
    /\ call' = [op |-> "temporary_filter.exit", entry |-> Head(blocks).entry,
                raised |-> raised]
    /\ ret' = IF raised THEN Raise(Exc("Exception", "raised in the block", 0))
              ELSE Return(None)
    /\ log' = <<>>
    /\ UNCHANGED <<readVars, component, connVars, dbVars, applied, heap>>

\* CursorAPI.clear_filter(slot) with self.filter_array = ref: the cursor's
\* slot is cleared, then the slot is popped from the dict of the FilterArray.
ClearFilter(ap, h, ref, slot, failed) ==
    LET step == <<Com("set_filter", "[ViewFilter(" \o ToString(slot) \o ",Clear)]",
                      slot, 0)>>
        cleared == [s \in Slots |-> IF s = slot THEN NoFilter ELSE ap[s]]
    IN  IF failed
        THEN [log |-> RunSteps(step, 1, ServerFailure), applied |-> ap, heap |-> h,
              ret |-> Raise(ComError(ServerFailure))]
        ELSE IF ref = None
        THEN [log |-> step, applied |-> cleared, heap |-> h,
              ret |-> Raise(Exc("AttributeError",
                                "'NoneType' object has no attribute 'filters'", 0))]
        ELSE [log |-> step, applied |-> cleared,
              heap |-> [h EXCEPT ![ref] =
                           [s \in DOMAIN @ |-> IF s = slot THEN NoFilter ELSE @[s]]],
              ret |-> Return(None)]

\* [self.clear_filter(i) for i in range(1, 9)] from slot i on.
RECURSIVE ClearFrom(_, _, _, _, _)
ClearFrom(ap, h, ref, i, fail) ==
    IF i > MaxSlot
    THEN [log |-> <<>>, applied |-> ap, heap |-> h, ret |-> Return(None)]
    ELSE LET c == ClearFilter(ap, h, ref, i, fail = i)
             rest == ClearFrom(c.applied, c.heap, ref, i + 1, fail)
         IN  IF c.ret.kind = "raise" THEN c
             ELSE [log |-> c.log \o rest.log, applied |-> rest.applied,
                   heap |-> rest.heap, ret |-> rest.ret]

ClearSlots == {1, 2, MaxSlot}

ClearFilterCall(slot, failed) ==
    \E r \in {ClearFilter(applied, heap, filter_array, slot, failed)} :
        /\ component = "cursor"
        /\ applied' = r.applied
        /\ heap' = r.heap
        /\ call' = [op |-> "clear_filter", slot |-> slot]
        /\ ret' = r.ret
        /\ log' = r.log
        /\ UNCHANGED <<readVars, component, connVars, dbVars, filter_array, blocks>>

\* CursorAPI.clear_all_filters()
ClearAllFiltersCall(fail) ==
    \E r \in {ClearFrom(applied, heap, filter_array, 1, fail)} :
        /\ component = "cursor"
        /\ applied' = r.applied
        /\ heap' = r.heap
        /\ filter_array' = IF r.ret.kind = "raise" THEN filter_array ELSE None
        /\ call' = [op |-> "clear_all_filters"]
        /\ ret' = r.ret
        /\ log' = r.log
        /\ UNCHANGED <<readVars, component, connVars, dbVars, blocks>>

(***************************************************************************)
(* Specification of the cursor's filters: a CursorAPI constructed with a   *)
(* FilterArray of the caller's or with none, then temporary_filter blocks  *)
(* (at most MaxDepth open) and clear_filter / clear_all_filters calls.     *)
(***************************************************************************)
\* CursorAPI.__init__(cursor_wrapper, filter_array=ref): the state after it.
CursorInit(ref) ==
    /\ heap = InitHeap
    /\ filter_array = ref
    /\ applied = IF ref # None
                 THEN CursorFilterByArray([s \in Slots |-> NoFilter], ref,
                                          InitHeap[ref], 0).applied
                 ELSE [s \in Slots |-> NoFilter]
    /\ blocks = <<>>

InitCursor ==
    /\ component = "cursor"
    /\ InitConn /\ InitCall /\ InitDbIdle /\ InitRowPointerIdle
    /\ \E ref \in {None} \cup ArrayIds : CursorInit(ref)

NextCursor ==
    \/ \E fil_array \in {None} \cup ArrayIds, fail \in 0..(MaxSlot + 1) :
          TemporaryFilterEnter(fil_array, fail)
    \/ \E raised \in BOOLEAN : TemporaryFilterExit(raised)
    \/ \E slot \in ClearSlots, failed \in BOOLEAN : ClearFilterCall(slot, failed)
    \/ \E fail \in 0..MaxSlot : ClearAllFiltersCall(fail)

SpecCursor == InitCursor /\ [][NextCursor]_vars

(***************************************************************************)
(* cursor_v2.py: the rows of the category through CursorAPI.  The primary  *)
(* key is column 0, "Name" (pk_label); the id of a row is its position.    *)
(***************************************************************************)
\* with self.temporary_filter(self.pk_filter(pk)): up to the body.  The
\* FilterArray is a new one, so no dict of the caller's is touched, and
\* filter_array is back to what it was when the block is left.
PkFilterEnter(ap, pk, fail) ==
    CursorFilterByArray(ap, "pk_filter", FiltersDict(<<FieldFilter("Name", pk)>>), fail)

\* CursorAPI.pk_exists(pk)
pk_exists(ap, rs, pk, fail) ==
    LET e == PkFilterEnter(ap, pk, fail)
        body == <<Com("row_count", "", 0, 0)>>
        f == fail - Len(e.log)
    IN  IF e.ret.kind = "raise" THEN [log |-> e.log, applied |-> e.applied,
                                      ret |-> e.ret, exists |-> FALSE]
        ELSE [log |-> e.log \o RunSteps(body, f, ServerFailure),
              applied |-> e.applied,
              ret |-> IF Failed(body, f) THEN Raise(ComError(ServerFailure))
                      ELSE Return(None),
              exists |-> Len(Visible(rs, e.applied)) > 0]

\* CursorAPI.pk_to_id(pk): the id of the one row shown under the pk filter.
pk_to_id(ap, rs, pk, fail) ==
    LET e == PkFilterEnter(ap, pk, fail)
        body == <<Com("get_query_row_set", "2", 0, 0), Com("get_row_id", "0", 0, 0)>>
        f == fail - Len(e.log)
        shown == {i \in 1..Len(rs) : Visible(<<rs[i]>>, e.applied) # <<>>}
    IN  IF e.ret.kind = "raise" THEN [log |-> e.log, applied |-> e.applied,
                                      ret |-> e.ret, id |-> 0]
        ELSE IF f = 1
        THEN [log |-> e.log \o RunSteps(body, 1, ServerFailure), applied |-> e.applied,
              ret |-> Raise(ComError(ServerFailure)), id |-> 0]
        ELSE IF Cardinality(shown) # 1
        THEN [log |-> e.log \o SubSeq(body, 1, 1), applied |-> e.applied,
              ret |-> Raise(Exc("raise_for_one", "Expected 1 row", 0)), id |-> 0]
        ELSE [log |-> e.log \o RunSteps(body, f, ServerFailure), applied |-> e.applied,
              ret |-> IF Failed(body, f) THEN Raise(ComError(ServerFailure))
                      ELSE Return(None),
              id |-> CHOOSE i \in shown : TRUE]

\* A row set of _create_row, _update_row or _delete_row, which return None.
CursorRowSet(prefix, ap, steps, rs, after, refused, fail) ==
    LET r == RowSetSession(steps, rs, after, refused, fail - Len(prefix))
    IN  [log |-> prefix \o r.log, applied |-> ap, rows |-> r.rows,
         ret |-> IF r.ret.kind = "raise" THEN r.ret ELSE Return(None)]

\* CursorAPI._create_row(create_pkg)
create_row(ap, rs, create_pkg, fail) ==
    LET pkg_pk == create_pkg.Name
        x == pk_exists(ap, rs, pkg_pk, fail)
        row == ModifyRowDict([Name |-> "", Notes |-> ""], create_pkg)
        steps == <<Com("get_add_row_set", "", 0, 0),
                   Com("modify_row", "create_pkg", 0, 0),
                   Com("commit", "", 0, 0)>>
    IN  IF pkg_pk \in {None, ""}
        THEN [log |-> <<>>, applied |-> ap, rows |-> rs,
              ret |-> Raise(Exc("ValueError",
                                "Primary key Name not provided in create_pkg.", 0))]
        ELSE IF x.ret.kind = "raise"
        THEN [log |-> x.log, applied |-> x.applied, rows |-> rs, ret |-> x.ret]
        ELSE IF x.exists
        THEN [log |-> x.log, applied |-> x.applied, rows |-> rs,
              ret |-> Raise(Exc("PyCommenceExistsError",
                                "Primary key " \o pkg_pk \o " already exists.", 0))]
        ELSE CursorRowSet(x.log, x.applied, steps, rs, Append(rs, row),
                          CommitRefused(rs, row.Name, 0), fail)

\* `id = id or self.pk_to_id(pk)` after raise_for_id_or_pk(id, pk); id 0 and
\* pk None stand for arguments not given.
IdOrPk(ap, rs, id, pk, fail) ==
    IF id = 0 /\ pk \in {None, ""}
    THEN [log |-> <<>>, applied |-> ap, id |-> 0,
          ret |-> Raise(Exc("ValueError", "Must provide id or pk", 0))]
    ELSE IF id # 0
    THEN [log |-> <<>>, applied |-> ap, id |-> id, ret |-> Return(None)]
    ELSE pk_to_id(ap, rs, pk, fail)

\* CursorAPI._update_row(update_pkg, id=id, pk=pk)
update_row(ap, rs, update_pkg, id, pk, fail) ==
    LET k == IdOrPk(ap, rs, id, pk, fail)
        steps == <<Com("get_edit_row_set_by_id", ToString(k.id), 0, 0),
                   Com("modify_row", "update_pkg", 0, 0),
                   Com("commit", "", 0, 0)>>
    IN  IF k.ret.kind = "raise"
        THEN [log |-> k.log, applied |-> k.applied, rows |-> rs, ret |-> k.ret]
        ELSE LET edited == ModifyRowDict(rs[k.id], update_pkg)
             IN  CursorRowSet(k.log, k.applied, steps, rs, [rs EXCEPT ![k.id] = edited],
                              CommitRefused(rs, edited.Name, k.id), fail)

\* CursorAPI._delete_row(id=id, pk=pk)
delete_row(ap, rs, id, pk, fail) ==
    LET k == IdOrPk(ap, rs, id, pk, fail)
        steps == <<Com("get_delete_row_set_by_id", ToString(k.id), 0, 0),
                   Com("delete_row", "0", 0, 0),
                   Com("commit", "", 0, 0)>>
    IN  IF k.ret.kind = "raise"
        THEN [log |-> k.log, applied |-> k.applied, rows |-> rs, ret |-> k.ret]
        ELSE CursorRowSet(k.log, k.applied, steps, rs, RemoveAt(rs, k.id), FALSE, fail)

CreatePackages == [Name : {None, ""} \cup HandlerNames, Notes : {None, "a"}]

\* The update packages: they leave the primary key alone.
UpdatePackages == [Name : {None}, Notes : HandlerNotes]

\* The id and pk arguments tried: a pk, an id, or neither.
IdPkArgs(rs) ==
    {<<0, pk>> : pk \in {None} \cup HandlerNames} \cup {<<id, None>> : id \in 1..Len(rs)}

PkExistsCall(pk, fail) ==
    \E r \in {pk_exists(applied, rows, pk, fail)} :
        /\ component = "crud"
        /\ applied' = r.applied
        /\ call' = [op |-> "pk_exists", pk |-> pk, exists |-> r.exists]
        /\ ret' = r.ret
        /\ log' = r.log
        /\ UNCHANGED <<readVars, component, connVars, dbVars, filter_array, blocks, heap>>

CreateRowCall(create_pkg, fail) ==
    \E r \in {create_row(applied, rows, create_pkg, fail)} :
        /\ component = "crud"
        /\ Len(r.rows) <= MaxRows
        /\ applied' = r.applied
        /\ rows' = r.rows
        /\ call' = [op |-> "_create_row", create_pkg |-> create_pkg, before |-> rows]
        /\ ret' = r.ret
        /\ log' = r.log
        /\ UNCHANGED <<readVars, component, connVars, allowDuplicates, filter_array, blocks, heap>>

UpdateRowCall(update_pkg, id, pk, fail) ==
    \E r \in {update_row(applied, rows, update_pkg, id, pk, fail)} :
        /\ component = "crud"
        /\ applied' = r.applied
        /\ rows' = r.rows
        /\ call' = [op |-> "_update_row", update_pkg |-> update_pkg, id |-> id,
                    pk |-> pk, before |-> rows]
        /\ ret' = r.ret
        /\ log' = r.log
        /\ UNCHANGED <<readVars, component, connVars, allowDuplicates, filter_array, blocks, heap>>

DeleteRowCall(id, pk, fail) ==
    \E r \in {delete_row(applied, rows, id, pk, fail)} :
        /\ component = "crud"
        /\ applied' = r.applied
        /\ rows' = r.rows
        /\ call' = [op |-> "_delete_row", id |-> id, pk |-> pk, before |-> rows]
        /\ ret' = r.ret
        /\ log' = r.log
        /\ UNCHANGED <<readVars, component, connVars, allowDuplicates, filter_array, blocks, heap>>

(***************************************************************************)
(* Specification of the rows: a category of at most MaxRows rows with      *)
(* unique primary keys, a CursorAPI constructed on it with a FilterArray   *)
(* of the caller's or with none, then _create_row, _update_row,            *)
(* _delete_row and pk_exists calls.                                        *)
(***************************************************************************)
InitCrud ==
    /\ component = "crud"
    /\ InitConn /\ InitCall /\ InitRowPointerIdle
    /\ allowDuplicates \in BOOLEAN
    /\ rows \in {rs \in RowLists(MaxRows) : UniqueNames(rs)}
    /\ \E ref \in {None} \cup ArrayIds : CursorInit(ref)

NextCrud ==
    \/ \E pk \in HandlerNames, fail \in 0..3 : PkExistsCall(pk, fail)
    \/ \E create_pkg \in CreatePackages :
          \E fail \in 0..Len(create_row(applied, rows, create_pkg, 0).log) :
             CreateRowCall(create_pkg, fail)
    \/ \E update_pkg \in UpdatePackages, k \in IdPkArgs(rows) :
          \E id \in {k[1]}, pk \in {k[2]} :
          \E fail \in 0..Len(update_row(applied, rows, update_pkg, id, pk, 0).log) :
             UpdateRowCall(update_pkg, id, pk, fail)
    \/ \E k \in IdPkArgs(rows) :
          \E id \in {k[1]}, pk \in {k[2]} :
          \E fail \in 0..Len(delete_row(applied, rows, id, pk, 0).log) :
             DeleteRowCall(id, pk, fail)

SpecCrud == InitCrud /\ [][NextCrud]_vars

(***************************************************************************)
(* cursor_v2.py: CursorAPI._read_rows.  Pagination, MoreAvailable and the  *)
(* CursorWrapper are not part of this source tree: Pagination(offset,      *)
(* limit) has end = offset + limit; seek_row(CURRENT, n) moves the row     *)
(* pointer n rows on, as far as the rows shown go; get_query_row_set(n)    *)
(* takes up to n of the rows shown from the row pointer on and moves the   *)
(* pointer past them.  Whether set_filter rewinds the row pointer is the   *)
(* server's affair: either is modelled.  The generator is run to its end.  *)
(* The log line of the first row yielded reads self.pk_label, a            *)
(* cached_property that takes a row set of one row when first read.        *)
(***************************************************************************)
MaxOffset == 1
MaxLimit == 2

Min(a, b) == IF a <= b THEN a ELSE b

Pagination(offset, limit) == [offset |-> offset, limit |-> limit, end |-> offset + limit]

\* cursor_wrapper.seek_row(SeekBookmark.CURRENT, n): the row pointer after it.
SeekRow(rs, ap, pos, n) == Min(pos + n, Len(Visible(rs, ap)))

\* cursor_wrapper.get_query_row_set(n): the rows of the row set.
QueryRowSet(rs, ap, pos, n) ==
    LET shown == Visible(rs, ap)
        from == Min(pos, Len(shown))
    IN  SubSeq(shown, from + 1, Min(from + n, Len(shown)))

\* The FilterArrays passed to _read_rows: None, one of the caller's, or a new
\* one on the Notes column.
ReadFilterArgs == {None, "A", "Notes"}

ReadFiltersDict(h, ref) ==
    IF ref \in DOMAIN h THEN h[ref] ELSE FiltersDict(<<FieldFilter("Notes", "a")>>)

NoRow == [Name |-> None, Notes |-> None]

\* What the generator yields: a row dict (with the category added when
\* with_category) or MoreAvailable(n_more).
RowItem(row, with_category) ==
    [kind |-> "row", row |-> row,
     category |-> IF with_category THEN "Contact" ELSE None, n_more |-> 0]

MoreAvailable(n_more) ==
    [kind |-> "more", row |-> NoRow, category |-> None, n_more |-> n_more]

\* CursorAPI._read_rows(with_category, pagination, filter_array) run to its
\* end, on a cursor with the filters ap set and the row pointer at pos.
read_rows(ap, rs, pos, rw, cached, ref, fs, pagination, with_category, fail) ==
    LET seek == IF pagination.offset # 0
                THEN <<Com("seek_row", ToString(pagination.offset), 0, 0)>>
                ELSE <<>>
        p1 == IF pagination.offset # 0 THEN SeekRow(rs, ap, pos, pagination.offset)
              ELSE pos
        e == IF ref = None THEN [log |-> <<>>, applied |-> ap, ret |-> Return(None)]
             ELSE CursorFilterByArray(ap, ref, fs, fail - Len(seek))
        p2 == IF rw /\ \E i \in 1..Len(e.log) :
                          e.log[i].com = "set_filter" /\ e.log[i].hr = 0
              THEN 0 ELSE p1
        count == Len(Visible(rs, e.applied))
        rows_left == count - pagination.end
        rowset == QueryRowSet(rs, e.applied, p2, pagination.limit)
        p3 == Min(p2, count) + Len(rowset)
        label == IF rowset # <<>> /\ ~cached
                 THEN <<Com("get_query_row_set", "1", 0, 0),
                        Com("get_column_label", "0", 0, 0)>>
                 ELSE <<>>
        p4 == IF label # <<>> THEN Min(p3 + 1, count) ELSE p3
        body == <<Com("row_count", "", 0, 0),
                  Com("get_query_row_set", ToString(pagination.limit), 0, 0)>> \o label
        f == fail - Len(seek) - Len(e.log)
        items == [i \in 1..Len(rowset) |-> RowItem(rowset[i], with_category)]
                 \o (IF rows_left > 0 THEN <<MoreAvailable(rows_left)>> ELSE <<>>)
    IN  IF Failed(seek, fail)
        THEN [log |-> RunSteps(seek, fail, ServerFailure), applied |-> ap,
              position |-> pos, cached |-> cached, in_force |-> ap,
              ret |-> Raise(ComError(ServerFailure))]
        ELSE IF e.ret.kind = "raise"
        THEN [log |-> seek \o e.log, applied |-> e.applied, position |-> p2,
              cached |-> cached, in_force |-> e.applied, ret |-> e.ret]
        ELSE IF Failed(body, f)
        THEN [log |-> seek \o e.log \o RunSteps(body, f, ServerFailure),
              applied |-> e.applied,
              position |-> IF f = 4 THEN p4 ELSE IF f = 3 THEN p3 ELSE p2,
              cached |-> cached, in_force |-> e.applied,
              ret |-> Raise(ComError(ServerFailure))]
        ELSE [log |-> seek \o e.log \o body, applied |-> e.applied, position |-> p4,
              cached |-> cached \/ label # <<>>, in_force |-> e.applied,
              ret |-> Return(items)]

\* The call before this one was _read_rows with these arguments, and it
\* returned.
Repeats(pagination, ref, with_category) ==
    /\ call.op = "_read_rows"
    /\ call.pagination = pagination
    /\ call.fil = ref
    /\ call.with_category = with_category
    /\ ret.kind = "return"

\* list(cursor._read_rows(with_category, pagination, filter_array)); the
\* temporary_filter block of the generator is left when it ends, which puts
\* filter_array back.
ReadRowsCall(pagination, ref, with_category, fail) ==
    \E r \in {read_rows(applied, rows, position, rewinds, pk_label_cached, ref,
                        ReadFiltersDict(heap, ref), pagination, with_category,
                        fail)} :
        /\ component = "read"
        /\ applied' = r.applied
        /\ position' = r.position
        /\ pk_label_cached' = r.cached
        /\ filter_array' = IF ref = None THEN filter_array
                           ELSE TemporaryFilterFinally(filter_array, ref,
                                                       r.ret.kind = "raise")
        /\ call' = [op |-> "_read_rows", pagination |-> pagination, fil |-> ref,
                    with_category |-> with_category, in_force |-> r.in_force,
                    repeats |-> Repeats(pagination, ref, with_category),
                    prev_items |-> IF Repeats(pagination, ref, with_category)
                                   THEN ret.val ELSE <<>>]
        /\ ret' = r.ret
        /\ log' = r.log
        /\ UNCHANGED <<rewinds, component, connVars, dbVars, blocks, heap>>

(***************************************************************************)
(* Specification of the reads: a category of at most MaxRows rows that     *)
(* does not change, a CursorAPI newly constructed on it with a FilterArray *)
(* of the caller's or with none, then _read_rows calls.                    *)
(***************************************************************************)
\* The categories read: unique names, the first row "Jeff" with Notes "a".
ReadCategories ==
    {rs \in RowLists(MaxRows) :
        UniqueNames(rs) /\ (rs # <<>> => rs[1] = [Name |-> "Jeff", Notes |-> "a"])}

InitRead ==
    /\ component = "read"
    /\ InitConn /\ InitCall
    /\ allowDuplicates = FALSE
    /\ rows \in ReadCategories
    /\ \E ref \in {None} \cup ArrayIds : CursorInit(ref)
    /\ position = 0
    /\ rewinds \in BOOLEAN
    /\ pk_label_cached = FALSE

NextRead ==
    \E offset \in 0..MaxOffset, limit \in 1..MaxLimit, ref \in ReadFilterArgs :
       \E fail \in 0..Len(read_rows(applied, rows, position, rewinds, pk_label_cached,
                                    ref, ReadFiltersDict(heap, ref),
                                    Pagination(offset, limit), FALSE, 0).log) :
          \E with_category \in IF fail = 0 THEN BOOLEAN ELSE {FALSE} :
             ReadRowsCall(Pagination(offset, limit), ref, with_category, fail)

SpecRead == InitRead /\ [][NextRead]_vars

(***************************************************************************)
(* The claims.                                                             *)
(***************************************************************************)
\* Successful constructions with one name returned one object, and those
\* with different names different objects (per API).
SameNameSameObject ==
    \A r1 \in returned, r2 \in returned :
        r1[1] = r2[1] => ((r1[2] = r2[2]) <=> (r1[3] = r2[3]))

\* C1 as stated: successful constructions with the same database name return
\* the same object, those with different names different objects, and
\* Dispatch is invoked at most once per database name, in both APIs.
C1_DispatchAtMostOncePerName ==
    /\ SameNameSameObject
    /\ \A k \in DOMAIN dispatchCount : dispatchCount[k] <= 1

\* C1 amended: the same, except that in the wrapper it is the Dispatch calls
\* that returned which number at most one per name: a failed construction is
\* not cached and the next construction calls Dispatch again, but no Dispatch
\* is made for a name once one has returned.
C1_ConnectionCache ==
    /\ SameNameSameObject
    /\ \A n \in DbNames :
          /\ dispatchCount[<<"db_api", n>>] <= 1
          /\ dispatchOkCount[<<"wrapper", n>>] <= 1
    /\ (call.op = "CmcAPI" /\ ComCalled("Dispatch")) =>
          dispatchOkCount[<<"wrapper", call.name>>] = (IF ComRaised THEN 0 ELSE 1)

\* C1 witness: a wrapper construction that failed in Dispatch, a second that
\* succeeded, and a third that returned the cached connection.
C1_Witness ==
    /\ call.op = "CmcAPI"
    /\ ret.kind = "return"
    /\ log = <<>>
    /\ dispatchCount[<<"wrapper", call.name>>] = 2
    /\ dispatchOkCount[<<"wrapper", call.name>>] = 1

LastHr == log[Len(log)].hr

DbNotExistMsg(name) == "Db Name \"" \o name \o "\" does not exist - connection failed"

\* C3: a Dispatch failure with HRESULT -2147221005 gives, in both
\* constructors, CmcError 'Db Name "<name>" does not exist - connection
\* failed'; a com_error with HRESULT -2147483617 in Csr.add_record gives
\* CmcError 'Record already exists'; and no call that met a com_error with
\* another HRESULT ends with either message.
C3_HresultMapping ==
    /\ (call.op \in {"CmcConnection", "CmcAPI"} /\ ComRaised /\ LastHr = HR_DB_NOT_EXIST)
          => (ret.kind = "raise" /\ ret.exc = "CmcError"
              /\ ret.msg = DbNotExistMsg(call.name))
    /\ (call.op = "Csr.add_record" /\ ComRaised /\ LastHr = HR_RECORD_EXISTS)
          => (ret.kind = "raise" /\ ret.exc = "CmcError"
              /\ ret.msg = "Record already exists")
    /\ (ComRaised /\ ret.kind = "raise"
            /\ ret.msg \in {DbNotExistMsg(n) : n \in DbNames})
          => (LastHr = HR_DB_NOT_EXIST /\ log[Len(log)].com = "Dispatch")
    /\ (ComRaised /\ ret.kind = "raise" /\ ret.msg = "Record already exists")
          => (LastHr = HR_RECORD_EXISTS /\ call.op = "Csr.add_record")

\* C3 witness: the wrapper constructor met HRESULT -2147221005 in Dispatch and
\* raised the CmcError naming the database.
C3_Witness ==
    /\ call.op = "CmcAPI"
    /\ ComRaised
    /\ LastHr = HR_DB_NOT_EXIST
    /\ ret.msg = "Db Name \"Tutorial.DB\" does not exist - connection failed"

\* C4 as stated: when a step of Csr.delete_record or of get_csr fails with an
\* exception, the call raises to its caller.
C4_FailuresSurface ==
    (call.op \in {"Csr.delete_record", "get_csr"} /\ call.failed) => ret.kind = "raise"

\* The arguments get_cursor is to refuse: no name with mode CATEGORY or VIEW,
\* or a flag that is neither PILOT nor INTERNET.
RefusedArgs ==
    \/ (call.mode \in {"CATEGORY", "VIEW"} /\ call.name = None)
    \/ \E i \in 1..Len(call.flags.items) : call.flags.items[i] \notin {"PILOT", "INTERNET"}

\* C5 as stated: get_cursor (either version) called with such arguments
\* raises ValueError, does not call GetCursor and (wrapper) leaves the cursor
\* cache unchanged.
C5_GetCursorValidation ==
    (call.op \in {"Cmc.get_cursor", "CmcConnection.get_cursor"} /\ RefusedArgs)
    => /\ ret.kind = "raise"
       /\ ret.exc = "ValueError"
       /\ ~ComCalled("GetCursor")
       /\ call.op = "CmcConnection.get_cursor" => ~call.cache_changed

\* C8 as stated: every slot of a FilterArray made by from_filters, and every
\* slot Csr.set_filters or Csr.filter_by_array sends to set_filter, is in 1..8.
C8_SlotsWithinBound ==
    /\ call.op = "Csr.filter_by_array" => DOMAIN call.filters \subseteq 1..MaxSlot
    /\ call.op \in {"Csr.set_filters", "Csr.filter_by_array"} =>
          \A i \in 1..Len(log) : log[i].slot \in 1..MaxSlot

\* The last call was CmcHandler.add_record and the server failed none of its
\* calls.
AddRecordServed == call.op = "CmcHandler.add_record" /\ ~ComRaised

\* The records named pk_val before the last call.
NamedBefore == Selected(call.before, "Name", call.pk_val)

\* rec is named pk_val and carries the package.
CarriesPackage(rec) ==
    /\ rec.Name = call.pk_val
    /\ \A f \in DOMAIN rec : call.package[f] # None => rec[f] = call.package[f]

\* What add_record is to do, case by case of C6.
AddRecordPolicy ==
    /\ NamedBefore = <<>> =>
          /\ ret.kind = "return"
          /\ Len(rows) = Len(call.before) + 1
          /\ SubSeq(rows, 1, Len(call.before)) = call.before
          /\ CarriesPackage(rows[Len(rows)])
          /\ ComCalled("get_named_addset") /\ ComCalled("commit")
    /\ (NamedBefore # <<>> /\ call.existing = "raise") =>
          /\ ret.kind = "raise" /\ ret.exc = "CmcError"
          /\ ret.msg = "Record already exists"
          /\ rows = call.before
          /\ \A i \in 1..Len(log) : log[i].com \in {"temporary_filter_pk", "row_count"}
    /\ (NamedBefore # <<>> /\ call.existing = "update") =>
          /\ ret.kind = "return"
          /\ ComCalled("get_edit_rowset") /\ ~ComCalled("get_named_addset")
          /\ Len(rows) = Len(call.before)
          /\ \E i \in 1..Len(rows) :
                /\ call.before[i].Name = call.pk_val
                /\ CarriesPackage(rows[i])
                /\ \A j \in 1..Len(rows) : j # i => rows[j] = call.before[j]
    /\ (NamedBefore # <<>> /\ call.existing = "replace") =>
          /\ ret.kind = "return"
          /\ \E d, a \in 1..Len(log) :
                d < a /\ log[d].com = "delete_row" /\ log[a].com = "get_named_addset"
          /\ \E i \in 1..Len(call.before) :
                /\ call.before[i].Name = call.pk_val
                /\ SubSeq(rows, 1, Len(rows) - 1) = RemoveAt(call.before, i)
          /\ CarriesPackage(rows[Len(rows)])
    /\ ret.kind = "return" => Len(Selected(rows, "Name", call.pk_val)) = 1

C7_RecordsByFieldContract ==
    (call.op = "CmcHandler.records_by_field" /\ ~ComRaised) =>
        LET matching == Selected(call.before, call.field_name, call.value)
        IN  IF matching = <<>> /\ call.empty = "raise"
            THEN ret.kind = "raise" /\ ret.exc = "CmcError"
            ELSE IF call.max_rtn.given /\ Len(matching) > call.max_rtn.n
            THEN ret.kind = "raise" /\ ret.exc = "CmcError"
            ELSE ret.kind = "return" /\ ret.val = matching /\ rows = call.before

\* C9 as stated: when a temporary_filter block is left - normally, by an
\* exception of its body, or by an exception while its array was applied -
\* filter_array is equal in value to what it was when the block was entered,
\* for every prior value and every temporary array, nested blocks included.
C9_TemporaryFilterRestores ==
    /\ call.op = "temporary_filter.exit" =>
          FilterValue(heap, filter_array) = call.entry
    /\ (call.op = "temporary_filter" /\ ret.kind = "raise") =>
          FilterValue(heap, filter_array) = call.entry

\* The server failed a call of the last operation for a reason of its own.
ServerFailed == \E i \in 1..Len(log) : log[i].hr = ServerFailure

\* C10 as stated: _create_row raises ValueError when the package has no (or
\* an empty) primary key and PyCommenceExistsError when a row with that key
\* exists, both without an add row set or a commit, and otherwise commits one
\* new row; and from a category with unique primary keys no sequence of
\* _create_row, _update_row (key unchanged) and _delete_row calls makes two
\* rows share a primary key.
C10_CreateRowUniqueKeys ==
    /\ (call.op = "_create_row" /\ ~ServerFailed) =>
          IF call.create_pkg.Name \in {None, ""}
          THEN /\ ret.kind = "raise" /\ ret.exc = "ValueError"
               /\ log = <<>> /\ rows = call.before
          ELSE IF Selected(call.before, "Name", call.create_pkg.Name) # <<>>
          THEN /\ ret.kind = "raise" /\ ret.exc = "PyCommenceExistsError"
               /\ ~ComCalled("get_add_row_set") /\ ~ComCalled("commit")
               /\ rows = call.before
          ELSE /\ ret.kind = "return"
               /\ Len(rows) = Len(call.before) + 1
               /\ SubSeq(rows, 1, Len(call.before)) = call.before
               /\ rows[Len(rows)].Name = call.create_pkg.Name
    /\ component = "crud" => UniqueNames(rows)

\* The calls of the last operation that were made to the COM object `name`
\* and returned.
Returned(name) == {i \in 1..Len(log) : log[i].com = name /\ log[i].hr = 0}

\* C11: when get_column_index or modify_row fails for a key of the package,
\* Csr.edit_record raises CmcError naming that key and value and commit is
\* never called, whatever was already modified for earlier keys; commit is
\* called at most once, as the last call, and only after every key of the
\* package was modified.
C11_EditAllOrNothing ==
    call.op = "Csr.edit_record" =>
        /\ (ComRaised /\ log[Len(log)].com \in {"get_column_index", "modify_row"}) =>
              /\ ret.kind = "raise" /\ ret.exc = "CmcError"
              /\ ret.msg = "Could not modify " \o call.package[log[Len(log)].slot][1]
                              \o " to " \o call.package[log[Len(log)].slot][2]
              /\ ~ComCalled("commit")
        /\ \A i \in 1..Len(log) : log[i].com = "commit" =>
              /\ i = Len(log)
              /\ Cardinality(Returned("modify_row")) = Len(call.package)
              /\ \A k \in 1..Len(call.package) :
                    \E j \in Returned("modify_row") : log[j].slot = k
        /\ ~ComRaised => (ret.kind = "return" /\ log[Len(log)].com = "commit")

\* C11 witness: the second key of the package failed in modify_row after the
\* first key was modified, and CmcError came with no commit.
C11_Witness ==
    /\ call.op = "Csr.edit_record"
    /\ Len(call.package) = 2
    /\ ComRaised
    /\ log[Len(log)].com = "modify_row" /\ log[Len(log)].slot = 2
    /\ Returned("modify_row") # {}
    /\ ret.exc = "CmcError"

\* The pieces of the string s from position start on, split at every ", "
\* found at position i or later.
RECURSIVE SplitFrom(_, _, _)
SplitFrom(s, i, start) ==
    IF i >= Len(s) THEN <<SubSeq(s, start, Len(s))>>
    ELSE IF SubSeq(s, i, i + 1) = ", "
         THEN <<SubSeq(s, start, i - 1)>> \o SplitFrom(s, i + 2, i + 2)
         ELSE SplitFrom(s, i + 1, start)

\* s is pre, then something, then post.
Enclosed(s, pre, post) ==
    /\ Len(s) >= Len(pre) + Len(post)
    /\ SubSeq(s, 1, Len(pre)) = pre
    /\ SubSeq(s, Len(s) - Len(post) + 1, Len(s)) = post

\* What s has between pre and post.
Inside(s, pre, post) == SubSeq(s, Len(pre) + 1, Len(s) - Len(post))

\* The fields of a command "[ViewFilter(f1, f2, ...)]" in order.
ViewFilterFields(cmd) == SplitFrom(Inside(cmd, "[ViewFilter(", ")]"), 1, 1)

\* C12: filter_str2(slot) is "[ViewFilter(" ... ")]" around the fields slot,
\* type, notflag, column, condition in that order, separated by ", ", and a
\* sixth field, the value, is there exactly when the value is non-empty;
\* filter_by_field sets "[ViewFilter(fslot, F,, field, condition" followed by
\* the value in double quotes exactly when the value is non-empty; and
\* filter_by_name(name, fslot) sets what filter_by_field("Name", "Equal To",
\* name, fslot) sets.
C12_FilterRendering ==
    /\ call.op = "CmcFilter.filter_str2" =>
          /\ ret.kind = "return"
          /\ Enclosed(ret.val, "[ViewFilter(", ")]")
          /\ ViewFilterFields(ret.val) =
                <<ToString(call.slot), call.fil.f_type, call.fil.not_flag,
                  call.fil.cmc_col, call.fil.condition>>
                \o (IF call.fil.value # "" THEN <<call.fil.value>> ELSE <<>>)
    /\ call.op = "Csr.filter_by_field" =>
          /\ Len(log) = 1 /\ log[1].com = "set_filter"
          /\ Enclosed(log[1].arg, "[ViewFilter(" \o ToString(call.fslot) \o ", F,, ", ")]")
          /\ SplitFrom(Inside(log[1].arg,
                              "[ViewFilter(" \o ToString(call.fslot) \o ", F,, ", ")]"),
                       1, 1) =
                <<call.field_name, call.condition>>
                \o (IF call.value # "" THEN <<"\"" \o call.value \o "\"">> ELSE <<>>)
    /\ call.op = "Csr.filter_by_name" =>
          /\ Len(log) = 1 /\ log[1].com = "set_filter"
          /\ Enclosed(log[1].arg, "[ViewFilter(" \o ToString(call.fslot) \o ", F,, ", ")]")
          /\ SplitFrom(Inside(log[1].arg,
                              "[ViewFilter(" \o ToString(call.fslot) \o ", F,, ", ")]"),
                       1, 1) =
                <<"Name", "Equal To">>
                \o (IF call.name # "" THEN <<"\"" \o call.name \o "\"">> ELSE <<>>)

\* C12 witness: a filter without a value and with the Not flag was rendered
\* for a slot above 1, in five fields.
C12_Witness ==
    /\ call.op = "CmcFilter.filter_str2"
    /\ call.fil.value = "" /\ call.fil.not_flag = "Not" /\ call.slot > 1
    /\ Len(ViewFilterFields(ret.val)) = 5

\* C13: CmcAPI(cmc_name, cursor_names), when no COM call fails, returns a
\* connection whose cursors dict holds a cursor for every name of
\* cursor_names; on a connection GetCursor is invoked at most once per cursor
\* name; and get_cursor(name) for a cached name returns the cached cursor.
C13_WrapperCursorCache ==
    /\ (call.op = "CmcAPI" /\ ~ComRaised) =>
          /\ ret.kind = "return"
          /\ \A i \in 1..Len(call.cursor_names) :
                call.cursor_names[i] \in DOMAIN apiConnections[call.name].cursors
    /\ \A k \in DOMAIN getCursorCount : getCursorCount[k] <= 1
    /\ (call.op = "CmcConnection.get_cursor" /\ call.cached) =>
          /\ ret.kind = "return"
          /\ ret.val = apiConnections[call.db].cursors[call.name]

\* C14: whenever no temporary_filter block is open, the filters in force on
\* the COM cursor, slot by slot, are the filters of self.filter_array (none
\* on any slot when it is None).
C14_FilterStateConsistent ==
    blocks = <<>> => applied = FilterValue(heap, filter_array).filters

\* The row dicts among the items a _read_rows call yielded, in order.
RowsYielded(items) ==
    [i \in 1..Len(SelectSeq(items, LAMBDA it : it.kind = "row")) |->
        SelectSeq(items, LAMBDA it : it.kind = "row")[i].row]

\* C15: a _read_rows call that runs to its end yields at most `limit` row
\* dicts, all before any MoreAvailable item; it yields MoreAvailable, once and
\* last, exactly when the row count under the filters in force is greater
\* than pagination.end, with n_more = row count - pagination.end, and then
\* offset + rows yielded + n_more is the filtered row count.
C15_ReadRowsPagination ==
    (call.op = "_read_rows" /\ ret.kind = "return") =>
        LET items == ret.val
            count == Len(Visible(rows, call.in_force))
            more == {i \in 1..Len(items) : items[i].kind = "more"}
        IN  /\ Len(RowsYielded(items)) <= call.pagination.limit
            /\ \A i \in more : i = Len(items)
            /\ (more # {}) <=> (count > call.pagination.end)
            /\ more # {} =>
                  /\ items[Len(items)].n_more = count - call.pagination.end
                  /\ call.pagination.offset + Len(RowsYielded(items))
                        + items[Len(items)].n_more = count

\* C16: in a _read_rows call with a filter_array and a non-zero offset the
\* filter is set on the cursor before the cursor is moved by the offset, and
\* the rows yielded are the rows offset+1 .. offset+limit of the filtered
\* result; and a _read_rows call that repeats the call before it, arguments
\* and category unchanged, yields what that call yielded.
C16_FilterBeforeSeek ==
    /\ (call.op = "_read_rows" /\ ret.kind = "return"
           /\ call.fil # None /\ call.pagination.offset # 0) =>
          LET filtered == Visible(rows, call.in_force)
          IN  /\ \A i, j \in 1..Len(log) :
                    (log[i].com = "set_filter" /\ log[j].com = "seek_row") => i < j
              /\ RowsYielded(ret.val) =
                    SubSeq(filtered, call.pagination.offset + 1,
                           Min(call.pagination.end, Len(filtered)))
    /\ (call.op = "_read_rows" /\ ret.kind = "return" /\ call.repeats) =>
          ret.val = call.prev_items

\* C17: clear_all_filters, from any state of the cursor and when no COM call
\* fails, returns without raising, has sent "[ViewFilter(slot,Clear)]" for
\* the slots 1..8 in ascending order, once each, and leaves filter_array
\* None.
C17_ClearAllFilters ==
    (call.op = "clear_all_filters" /\ ~ComRaised) =>
        /\ ret.kind = "return"
        /\ Len(log) = MaxSlot
        /\ \A i \in 1..Len(log) :
              /\ log[i].com = "set_filter"
              /\ log[i].arg = "[ViewFilter(" \o ToString(i) \o ",Clear)]"
        /\ filter_array = None

\* C18: every object in CmcConnection.connections holds a COM handle (_cmc is
\* set); a construction that raised leaves no entry for its name in the
\* cache; and a construction that returns, returns an object with a COM
\* handle.
C18_NoBrokenConnectionCached ==
    /\ \A n \in DOMAIN connections : connections[n].has_cmc
    /\ (call.op = "CmcConnection" /\ ret.kind = "raise") =>
          call.name \notin DOMAIN connections
    /\ (call.op = "CmcConnection" /\ ret.kind = "return") =>
          /\ call.name \in DOMAIN connections
          /\ connections[call.name].id = ret.val
          /\ connections[call.name].has_cmc

====
